---- MODULE Spec2Model ----
(***************************************************************************)
(* MediaGrab web client: the download history kept by App (App.jsx), the   *)
(* batch executor of the chat panel (handleBatchDownload) and the          *)
(* DownloadModal, against the job service they talk to through             *)
(* services/api.js.  The job service itself (backend/main.py) is not part  *)
(* of the sources at hand; its job state machine is taken from spec.md     *)
(* section 4.1.                                                            *)
(***************************************************************************)
EXTENDS Integers, Sequences, FiniteSets, TLC

\* ------------------------------------------------------------------ bounds
MaxJobs == 3        \* jobs the service creates in one run
MaxHist == 2        \* entries of the history restored from localStorage
MaxTicks == 2       \* history polling ticks whose requests are in flight
MaxBatch == 3       \* intentions of one batch
MaxPolls == 2       \* status requests the modal has in flight
MaxStarts == 1      \* submit requests the modal has in flight
MaxPreviews == 1    \* preview requests the modal has in flight

\* --------------------------------------------------------------- constants
HistoryLimit == 20  \* App.jsx:71  .slice(0, 20)

VARIABLES
    jobs,        \* service: task id -> [status, progress]
    nextJob,     \* service: number of jobs created so far
    slots,       \* service: concurrency slots held by running jobs
    downloads,   \* App: the `downloads` state (newest first)
    stored,      \* localStorage['downloadHistory']: <<>> when absent, else <<list>>
    ticks,       \* history polling ticks awaiting their status requests
    failed,      \* task ids for which getTaskStatus has failed with NotFoundError
    retried,     \* task ids queried again after such a failure
    bPc,         \* handleBatchDownload: where the run stands
    bItems,      \* handleBatchDownload: its `intentions` argument
    bIdx,        \* handleBatchDownload: position of the for loop (1-based)
    bBase,       \* the `downloads` closed over by the run's onDownloadComplete
    sent,        \* requests the run has sent to the download endpoints
    bLog,        \* items logged by console.error in the inner catch
    messages,    \* AIChatPanel: the `messages` state (kinds of message)
    input,       \* AIChatPanel: the `input` state (text of the textarea)
    isLoading,   \* AIChatPanel: the `isLoading` state
    chats,       \* agentChat requests in flight (the text sent)
    autoTimers,  \* 500 ms timers of handleSend, each holding its intentions
    mPlatform,   \* DownloadModal: platform.id of the open modal
    mUrl,        \* DownloadModal: `url`
    mStatus,     \* DownloadModal: `status`
    mProgress,   \* DownloadModal: `progress`
    mError,      \* DownloadModal: `error`
    mTaskId,     \* DownloadModal: `taskId`
    mResult,     \* DownloadModal: `result`
    mPreview,    \* DownloadModal: `preview`
    mTimer,      \* the 500 ms debounce timer of the preview is armed
    mPreviews,   \* preview requests in flight
    mStarts,     \* submit requests of startDownload in flight
    mPolls,      \* status requests of the modal's poll in flight
    odc          \* task ids the modal has passed to onDownloadComplete

histVars == <<downloads, stored, ticks, failed, retried>>
srvVars == <<jobs, nextJob, slots>>
chatVars == <<input, isLoading, chats, autoTimers>>
batchVars == <<bPc, bItems, bIdx, bBase, sent, bLog, messages, chatVars>>
modalVars == <<mPlatform, mUrl, mStatus, mProgress, mError, mTaskId, mResult,
               mPreview, mTimer, mPreviews, mStarts, mPolls, odc>>

\* ------------------------------------------------------------ JS helpers
Null == "null"
Undefined == "undefined"

\* JS truthiness of a string-or-null value
Truthy(v) == v \notin {Null, Undefined, ""}

\* a || b
Or(a, b) == IF Truthy(a) THEN a ELSE b

Min(a, b) == IF a < b THEN a ELSE b

\* arr.slice(0, n)
Slice(arr, n) == SubSeq(arr, 1, Min(Len(arr), n))

\* ------------------------------------------------- job service (spec 4.1)
TaskId(n) == "task-" \o ToString(n)
TaskIds == {TaskId(n) : n \in 1..MaxJobs}
\* an id saved by an earlier session that the service no longer knows
StaleId == "task-old"
FileIdOf(id) == "file-of-" \o id
FilenameOf(id) == "name-of-" \o id

Progresses == {0, 50, 100}
\* hung: the adapter call of the job will not return within its bound
NoJob == [status |-> "none", progress |-> 0, errorDetail |-> "none", hung |-> FALSE]
NewJob == [status |-> "pending", progress |-> 0, errorDetail |-> "none", hung |-> FALSE]
DoneJob == [status |-> "completed", progress |-> 100, errorDetail |-> "none", hung |-> FALSE]
Terminal == {"completed", "error"}

\* the configured cap on simultaneously processing jobs
Cap == 2
ProcessingCount == Cardinality({id \in TaskIds : jobs[id].status = "processing"})

\* submit: allocate a job in pending and return its id
SubmitJob ==
    /\ nextJob < MaxJobs
    /\ nextJob' = nextJob + 1
    /\ jobs' = [jobs EXCEPT ![TaskId(nextJob + 1)] = NewJob]
    /\ slots' = slots

\* getStatus: snapshot of the job, or NotFoundError for an unknown id
Known(id) == id \in TaskIds /\ jobs[id].status # "none"
GetStatus(id) ==
    IF Known(id)
    THEN [ok |-> TRUE, status |-> jobs[id].status,
          progress |-> jobs[id].progress,
          file_id |-> IF jobs[id].status = "completed" THEN FileIdOf(id) ELSE Undefined,
          filename |-> IF jobs[id].status = "completed" THEN FilenameOf(id) ELSE Undefined]
    ELSE [ok |-> FALSE, status |-> "NotFoundError", progress |-> 0,
          file_id |-> Undefined, filename |-> Undefined]
\* a status request lost on the way (network error, axios timeout)
RequestError == [ok |-> FALSE, status |-> "NetworkError", progress |-> 0,
                 file_id |-> Undefined, filename |-> Undefined]

\* a faulty dispatch that does not look at the cap
JobStartUncapped(id) ==
    /\ jobs[id].status = "pending"
    /\ slots' = slots + 1
    /\ jobs' = [jobs EXCEPT ![id].status = "processing"]
    /\ UNCHANGED <<nextJob, histVars, batchVars, modalVars, chatVars>>

\* a worker takes a pending job when a slot is free
JobStart(id) ==
    /\ jobs[id].status = "pending"
    /\ slots < Cap
    /\ slots' = slots + 1
    /\ jobs' = [jobs EXCEPT ![id].status = "processing"]
    /\ UNCHANGED <<nextJob, histVars, batchVars, modalVars, chatVars>>

JobProgress(id) ==
    /\ jobs[id].status = "processing"
    /\ ~jobs[id].hung
    /\ \E p \in Progresses :
          /\ p > jobs[id].progress
          /\ jobs' = [jobs EXCEPT ![id].progress = p]
    /\ UNCHANGED <<nextJob, slots, histVars, batchVars, modalVars, chatVars>>

\* the adapter call of a running job stops answering
JobHang(id) ==
    /\ jobs[id].status = "processing"
    /\ ~jobs[id].hung
    /\ jobs' = [jobs EXCEPT ![id].hung = TRUE]
    /\ UNCHANGED <<nextJob, slots, histVars, batchVars, modalVars, chatVars>>

JobComplete(id) ==
    /\ jobs[id].status = "processing"
    /\ ~jobs[id].hung
    /\ slots' = slots - 1
    /\ jobs' = [jobs EXCEPT ![id].status = "completed"]
    /\ UNCHANGED <<nextJob, histVars, batchVars, modalVars, chatVars>>

\* the adapter fails
JobFail(id) ==
    /\ jobs[id].status = "processing"
    /\ ~jobs[id].hung
    /\ slots' = slots - 1
    /\ jobs' = [jobs EXCEPT ![id].status = "error", ![id].errorDetail = "adapter"]
    /\ UNCHANGED <<nextJob, histVars, batchVars, modalVars, chatVars>>

\* a faulty timeout handler that marks the job and keeps its slot
JobTimeoutLeaks(id) ==
    /\ jobs[id].status = "processing"
    /\ jobs[id].hung
    /\ slots' = slots
    /\ jobs' = [jobs EXCEPT ![id].status = "error", ![id].errorDetail = "timeout"]
    /\ UNCHANGED <<nextJob, histVars, batchVars, modalVars, chatVars>>

\* the adapter call has not returned within its bound
JobTimeout(id) ==
    /\ jobs[id].status = "processing"
    /\ jobs[id].hung
    /\ slots' = slots - 1
    /\ jobs' = [jobs EXCEPT ![id].status = "error", ![id].errorDetail = "timeout"]
    /\ UNCHANGED <<nextJob, histVars, batchVars, modalVars, chatVars>>

\* a faulty worker whose unexpected fault escapes the scope that releases
\* the slot
JobFaultLeaks(id) ==
    /\ jobs[id].status = "processing"
    /\ ~jobs[id].hung
    /\ slots' = slots
    /\ jobs' = [jobs EXCEPT ![id].status = "error", ![id].errorDetail = "internal-fault"]
    /\ UNCHANGED <<nextJob, histVars, batchVars, modalVars, chatVars>>

\* an unexpected internal fault during execution
JobFault(id) ==
    /\ jobs[id].status = "processing"
    /\ ~jobs[id].hung
    /\ slots' = slots - 1
    /\ jobs' = [jobs EXCEPT ![id].status = "error", ![id].errorDetail = "internal-fault"]
    /\ UNCHANGED <<nextJob, histVars, batchVars, modalVars, chatVars>>

\* a client submits a well-formed download
ClientSubmit ==
    /\ SubmitJob
    /\ UNCHANGED <<histVars, batchVars, modalVars, chatVars>>

\* ------------------------------------------------------ history (App.jsx)
Entry(id, platform, filename, fileId) ==
    [id |-> id, platform |-> platform, filename |-> filename, fileId |-> fileId]

\* const hasPending = downloads.some(d => d.fileId === null)
HasPending(list) == \E k \in 1..Len(list) : list[k].fileId = Null

\* addToHistory: [download, ...downloads].slice(0, 20), written to the state
\* and to localStorage; `base` is the `downloads` of the render that made
\* the closure
AddToHistory(download, base) ==
    LET newDownloads == Slice(<<download>> \o base, HistoryLimit)
    IN /\ downloads' = newDownloads
       /\ stored' = <<newDownloads>>

\* one element of the map in the polling tick, given the status response
PollResult(d, st) ==
    IF ~st.ok THEN d
    ELSE IF st.status = "completed"
         THEN [d EXCEPT !.fileId = st.file_id, !.filename = st.filename]
    ELSE IF st.status = "error"
         THEN [d EXCEPT !.fileId = "error"]
    ELSE d

\* a faulty tick that asks for the status of every entry
TickStartQueriesAll ==
    /\ HasPending(downloads)
    /\ Len(ticks) < MaxTicks
    /\ LET snap == downloads
           wait == [k \in 1..Len(snap) |-> TRUE]
           asked == {snap[k].id : k \in 1..Len(snap)}
       IN /\ ticks' = Append(ticks, [snap |-> snap, wait |-> wait,
                                     res |-> snap, needsUpdate |-> FALSE])
          /\ retried' = retried \cup (asked \cap failed)
    /\ UNCHANGED <<downloads, stored, failed, srvVars, batchVars, modalVars, chatVars>>

\* the interval fires: the callback maps over the downloads of its render
\* and sends one status request per pending entry
TickStart ==
    /\ HasPending(downloads)
    /\ Len(ticks) < MaxTicks
    /\ LET snap == downloads
           wait == [k \in 1..Len(snap) |-> snap[k].fileId = Null]
           asked == {snap[k].id : k \in {i \in 1..Len(snap) : wait[i]}}
       IN /\ ticks' = Append(ticks, [snap |-> snap, wait |-> wait,
                                     res |-> snap, needsUpdate |-> FALSE])
          /\ retried' = retried \cup (asked \cap failed)
    /\ UNCHANGED <<downloads, stored, failed, srvVars, batchVars, modalVars, chatVars>>

\* one status request of a tick returns (or throws)
TickResponse(t, k) ==
    /\ t \in 1..Len(ticks)
    /\ k \in 1..Len(ticks[t].snap)
    /\ ticks[t].wait[k]
    /\ LET d == ticks[t].snap[k] IN
       \E st \in {GetStatus(d.id), RequestError} :
          /\ ticks' = [ticks EXCEPT
                ![t].wait[k] = FALSE,
                ![t].res[k] = PollResult(d, st),
                ![t].needsUpdate = @ \/ (st.ok /\ st.status \in Terminal)]
          /\ failed' = IF st.status = "NotFoundError"
                        THEN failed \cup {d.id} ELSE failed
    /\ UNCHANGED <<downloads, stored, retried, srvVars, batchVars, modalVars, chatVars>>

RemoveAt(s, i) == SubSeq(s, 1, i - 1) \o SubSeq(s, i + 1, Len(s))

\* Promise.all has resolved: write the mapped list if anything changed
TickFinish(t) ==
    /\ t \in 1..Len(ticks)
    /\ \A k \in 1..Len(ticks[t].snap) : ~ticks[t].wait[k]
    /\ IF ticks[t].needsUpdate
       THEN downloads' = ticks[t].res /\ stored' = <<ticks[t].res>>
       ELSE UNCHANGED <<downloads, stored>>
    /\ ticks' = RemoveAt(ticks, t)
    /\ UNCHANGED <<failed, retried, srvVars, batchVars, modalVars, chatVars>>

\* History: {item.fileId ? <a href={downloadFile(item.fileId)}> : spinner}
OffersLink(d) == Truthy(d.fileId)

\* History.clearHistory
ClearHistory ==
    /\ downloads # <<>>
    /\ downloads' = <<>>
    /\ stored' = <<>>
    /\ UNCHANGED <<ticks, failed, retried, srvVars, batchVars, modalVars, chatVars>>


\* ------------------------------- batch executor (AIChatPanel.jsx:59-117)
\* An intention as the chat service returns it: an object whose fields may
\* be missing, or no object at all (null).
Intention(platform, url, query, format) ==
    [isNull |-> FALSE, platform |-> platform, url |-> url, query |-> query,
     format |-> format, quality |-> Undefined]
NullIntention ==
    [isNull |-> TRUE, platform |-> Undefined, url |-> Undefined,
     query |-> Undefined, format |-> Undefined, quality |-> Undefined]

Supported == {"youtube", "spotify", "tiktok"}
Intentions ==
    { Intention("youtube", "https://youtu.be/a", Undefined, Undefined),
      Intention("youtube", "https://youtu.be/b", "song b", "mp4"),
      Intention("spotify", "", "song c", "flac"),
      Intention("tiktok", "https://tiktok.com/d", Undefined, Undefined),
      Intention("vimeo", "https://vimeo.com/e", Undefined, Undefined),
      Intention(Undefined, Undefined, "song f", Undefined),
      Intention("youtube", Undefined, Undefined, Undefined),
      NullIntention }
BatchLists == UNION {[1..n -> Intentions] : n \in 1..MaxBatch}

BatchIdle ==
    /\ bPc = "idle"
    /\ bItems = <<>>
    /\ bIdx = 1
    /\ bBase = <<>>
    /\ sent = <<>>
    /\ bLog = {}
    /\ messages = <<"greeting">>
    /\ input = ""
    /\ isLoading = FALSE
    /\ chats = <<>>
    /\ autoTimers = <<>>

\* a faulty mapping that prefers the query
DownloadUrlQueryFirst(item) == Or(item.query, item.url)

\* the request one item leads to (lines 78-89)
DownloadUrl(item) == Or(item.url, item.query)
BatchRequest(i, item) ==
    IF item.platform = "spotify"
    THEN [item |-> i, endpoint |-> "/api/download/spotify", url |-> DownloadUrl(item),
          format |-> Or(item.format, "mp3"), quality |-> Undefined, resp |-> "inflight"]
    ELSE IF item.platform = "tiktok"
    THEN [item |-> i, endpoint |-> "/api/download/tiktok", url |-> DownloadUrl(item),
          format |-> Or(item.format, "mp4"), quality |-> Undefined, resp |-> "inflight"]
    ELSE [item |-> i, endpoint |-> "/api/download/youtube", url |-> DownloadUrl(item),
          format |-> Or(item.format, "mp3"), quality |-> Or(item.quality, "320k"),
          resp |-> "inflight"]

\* the history entry of a started item (lines 93-99)
BatchEntry(item, taskId) ==
    Entry(taskId, Or(item.platform, "youtube"), Or(item.query, DownloadUrl(item)), Null)

\* handleBatchDownload is called (button of the message, or the timer of
\* handleSend): the closure holds the onDownloadComplete of its render
BatchStart ==
    /\ bPc = "idle"
    /\ \E items \in BatchLists : bItems' = items
    /\ bBase' = downloads
    /\ bPc' = "picker"
    /\ UNCHANGED <<bIdx, sent, bLog, messages, srvVars, histVars, modalVars, chatVars>>

\* lines 62-73: the directory picker, where the browser has one, resolves
\* or is cancelled; either way the run announces itself and goes on
BatchPicked ==
    /\ bPc = "picker"
    /\ bPc' = "loop"
    /\ messages' = Append(messages, "starting")
    /\ UNCHANGED <<bItems, bIdx, bBase, sent, bLog, srvVars, histVars, modalVars, chatVars>>

\* one iteration up to its await: reading item.url of null throws outside
\* the inner try and lands in the outer catch
BatchSubmit ==
    /\ bPc = "loop"
    /\ bIdx <= Len(bItems)
    /\ IF bItems[bIdx].isNull
       THEN /\ bPc' = "failed"
            /\ messages' = Append(messages, "batch-error")
            /\ UNCHANGED sent
       ELSE /\ bPc' = "await"
            /\ sent' = Append(sent, BatchRequest(bIdx, bItems[bIdx]))
            /\ UNCHANGED messages
    /\ UNCHANGED <<bItems, bIdx, bBase, bLog, srvVars, histVars, modalVars, chatVars>>

\* the service validates the reference of a submission (spec 4.1)
ValidSubmit(req) == Truthy(req.url)

\* the submit returns a task id: the item goes to the history at once
BatchSubmitOk ==
    /\ bPc = "await"
    /\ ValidSubmit(sent[Len(sent)])
    /\ SubmitJob
    /\ sent' = [sent EXCEPT ![Len(sent)].resp = TaskId(nextJob + 1)]
    /\ AddToHistory(BatchEntry(bItems[bIdx], TaskId(nextJob + 1)), bBase)
    /\ bIdx' = bIdx + 1
    /\ bPc' = "loop"
    /\ UNCHANGED <<bItems, bBase, bLog, messages, ticks, failed, retried, modalVars, chatVars>>

\* the submit returns a body without task_id: nothing is recorded
BatchSubmitNoTask ==
    /\ bPc = "await"
    /\ sent' = [sent EXCEPT ![Len(sent)].resp = "no-task"]
    /\ bIdx' = bIdx + 1
    /\ bPc' = "loop"
    /\ UNCHANGED <<bItems, bBase, bLog, messages, srvVars, histVars, modalVars, chatVars>>

\* a faulty inner catch that undoes the run: it restores the history the
\* run started with
BatchSubmitThrowsRollsBack ==
    /\ bPc = "await"
    /\ sent' = [sent EXCEPT ![Len(sent)].resp = "throw"]
    /\ bLog' = bLog \cup {bIdx}
    /\ bIdx' = bIdx + 1
    /\ bPc' = "loop"
    /\ downloads' = bBase
    /\ stored' = <<bBase>>
    /\ UNCHANGED <<bItems, bBase, messages, srvVars, ticks, failed, retried, modalVars, chatVars>>

\* the submit throws (ValidationError, network error): inner catch
BatchSubmitThrows ==
    /\ bPc = "await"
    /\ sent' = [sent EXCEPT ![Len(sent)].resp = "throw"]
    /\ bLog' = bLog \cup {bIdx}
    /\ bIdx' = bIdx + 1
    /\ bPc' = "loop"
    /\ UNCHANGED <<bItems, bBase, messages, srvVars, histVars, modalVars, chatVars>>

\* the loop has run through the list
BatchFinish ==
    /\ bPc = "loop"
    /\ bIdx > Len(bItems)
    /\ bPc' = "done"
    /\ messages' = Append(messages, "started")
    /\ UNCHANGED <<bItems, bIdx, bBase, sent, bLog, srvVars, histVars, modalVars, chatVars>>

\* ------------------------------ DownloadModal (AIChatPanel.jsx:225-465)
Url(text, length, site) == [text |-> text, length |-> length, site |-> site]
BlankUrl == Url("", 0, "none")
SpacesUrl == Url("   ", 3, "none")
Urls == { BlankUrl, SpacesUrl,
          Url("https://youtu.be/abcdefg", 24, "youtube"),
          Url("https://open.spotify.com/track/x", 32, "spotify") }

\* text.trim(): of the texts above only the blank ones carry whitespace
Trim(text) == IF text \in {BlankUrl.text, SpacesUrl.text} THEN "" ELSE text

NoResult == [file_id |-> Null, filename |-> Null]

\* no modal is open
ModalClosed ==
    /\ mPlatform = "none"
    /\ mUrl = BlankUrl
    /\ mStatus = "idle"
    /\ mProgress = 0
    /\ mError = ""
    /\ mTaskId = Null
    /\ mResult = NoResult
    /\ mPreview = Null
    /\ mTimer = FALSE
    /\ mPreviews = <<>>
    /\ mStarts = <<>>
    /\ mPolls = <<>>
    /\ odc = <<>>

\* the input's onChange: the debounce effect clears its timer and arms a
\* new one (lines 324-332); the input is disabled while loading or polling
SetUrl(u) ==
    /\ mStatus \notin {"loading", "polling"}
    /\ u # mUrl
    /\ mUrl' = u
    /\ mTimer' = TRUE
    /\ UNCHANGED <<mPlatform, mStatus, mProgress, mError, mTaskId, mResult,
                   mPreview, mPreviews, mStarts, mPolls, odc,
                   srvVars, histVars, batchVars>>

\* patterns[platform.id]?.test(inputUrl)
PatternMatches(platform, u) == u.site = platform

\* the timer fires: fetchPreview(url) when the url is longer than 15
TimerFires ==
    /\ mTimer
    /\ mTimer' = FALSE
    /\ IF mUrl.length > 15
       THEN IF Trim(mUrl.text) = "" \/ mUrl.length < 15
            THEN /\ mPreview' = Null
                 /\ UNCHANGED <<mStatus, mError, mPreviews>>
            ELSE IF ~PatternMatches(mPlatform, mUrl)
            THEN UNCHANGED <<mPreview, mStatus, mError, mPreviews>>
            ELSE /\ Len(mPreviews) < MaxPreviews
                 /\ mStatus' = "previewing"
                 /\ mError' = ""
                 /\ mPreviews' = Append(mPreviews, mUrl)
                 /\ UNCHANGED mPreview
       ELSE UNCHANGED <<mPreview, mStatus, mError, mPreviews>>
    /\ UNCHANGED <<mPlatform, mUrl, mProgress, mTaskId, mResult, mStarts,
                   mPolls, odc, srvVars, histVars, batchVars>>

\* a faulty handler of the preview response that takes a task id from it
PreviewResponseSetsTask(p, outcome) ==
    /\ p \in 1..Len(mPreviews)
    /\ mPreviews' = RemoveAt(mPreviews, p)
    /\ mStatus' = "idle"
    /\ mPreview' = IF outcome = "success" THEN mPreviews[p].text ELSE Null
    /\ mError' = IF outcome = "error-text" THEN "preview-error" ELSE mError
    /\ mTaskId' = IF outcome = "success" THEN TaskId(1) ELSE mTaskId
    /\ UNCHANGED <<mPlatform, mUrl, mProgress, mResult, mTimer,
                   mStarts, mPolls, odc, srvVars, histVars, batchVars>>

\* a faulty handler of the preview response whose catch forgets the status
PreviewResponseStuck(p, outcome) ==
    /\ p \in 1..Len(mPreviews)
    /\ mPreviews' = RemoveAt(mPreviews, p)
    /\ mStatus' = IF outcome = "throw" THEN mStatus ELSE "idle"
    /\ mPreview' = IF outcome = "success" THEN mPreviews[p].text ELSE Null
    /\ mError' = IF outcome = "error-text" THEN "preview-error" ELSE mError
    /\ UNCHANGED <<mPlatform, mUrl, mProgress, mTaskId, mResult, mTimer,
                   mStarts, mPolls, odc, srvVars, histVars, batchVars>>

\* a preview request returns with success, with success=false and an error
\* text, or throws (success=false without a text has the effects of a throw)
PreviewResponse(p, outcome) ==
    /\ p \in 1..Len(mPreviews)
    /\ mPreviews' = RemoveAt(mPreviews, p)
    /\ mStatus' = "idle"
    /\ mPreview' = IF outcome = "success" THEN mPreviews[p].text ELSE Null
    /\ mError' = IF outcome = "error-text" THEN "preview-error" ELSE mError
    /\ UNCHANGED <<mPlatform, mUrl, mProgress, mTaskId, mResult, mTimer,
                   mStarts, mPolls, odc, srvVars, histVars, batchVars>>
PreviewOutcomes == {"success", "error-text", "throw"}

\* the download button is shown and enabled (lines 702-724)
StartEnabled == mStatus \notin {"saved", "saving", "loading", "polling",
                                "previewing", "completed"}

ModalEndpoint(platform) == "/api/download/" \o platform

\* a faulty startDownload that tests !url instead of !url.trim()
StartDownloadNoTrim ==
    /\ StartEnabled
    /\ IF mUrl.text = ""
       THEN /\ mError' = "enter-url"
            /\ UNCHANGED <<mStatus, mProgress, mStarts>>
       ELSE IF mPlatform \notin Supported
       THEN /\ mStatus' = "error"
            /\ mError' = "unsupported-platform"
            /\ mProgress' = 0
            /\ UNCHANGED mStarts
       ELSE /\ Len(mStarts) < MaxStarts
            /\ mStatus' = "loading"
            /\ mError' = ""
            /\ mProgress' = 0
            /\ mStarts' = Append(mStarts, [endpoint |-> ModalEndpoint(mPlatform),
                                           url |-> mUrl.text])
    /\ UNCHANGED <<mPlatform, mUrl, mTaskId, mResult, mPreview, mTimer,
                   mPreviews, mPolls, odc, srvVars, histVars, batchVars>>

\* startDownload (lines 334-368): up to the await of the submit; the
\* default branch of the switch throws before any request is made and the
\* catch sets the error in the same synchronous run
StartDownload ==
    /\ StartEnabled
    /\ IF Trim(mUrl.text) = ""
       THEN /\ mError' = "enter-url"
            /\ UNCHANGED <<mStatus, mProgress, mStarts>>
       ELSE IF mPlatform \notin Supported
       THEN /\ mStatus' = "error"
            /\ mError' = "unsupported-platform"
            /\ mProgress' = 0
            /\ UNCHANGED mStarts
       ELSE /\ Len(mStarts) < MaxStarts
            /\ mStatus' = "loading"
            /\ mError' = ""
            /\ mProgress' = 0
            /\ mStarts' = Append(mStarts, [endpoint |-> ModalEndpoint(mPlatform),
                                           url |-> mUrl.text])
    /\ UNCHANGED <<mPlatform, mUrl, mTaskId, mResult, mPreview, mTimer,
                   mPreviews, mPolls, odc, srvVars, histVars, batchVars>>

\* the submit returns a task id (lines 360-363)
StartOk(r) ==
    /\ r \in 1..Len(mStarts)
    /\ ValidSubmit(mStarts[r])
    /\ SubmitJob
    /\ mStarts' = RemoveAt(mStarts, r)
    /\ mTaskId' = TaskId(nextJob + 1)
    /\ mStatus' = "polling"
    /\ UNCHANGED <<mPlatform, mUrl, mProgress, mError, mResult, mPreview,
                   mTimer, mPreviews, mPolls, odc, histVars, batchVars>>

\* the submit returns a body without task_id: nothing is set
StartNoTask(r) ==
    /\ r \in 1..Len(mStarts)
    /\ mStarts' = RemoveAt(mStarts, r)
    /\ UNCHANGED <<mPlatform, mUrl, mStatus, mProgress, mError, mTaskId,
                   mResult, mPreview, mTimer, mPreviews, mPolls, odc,
                   srvVars, histVars, batchVars>>

\* the submit throws (lines 364-367)
StartThrows(r) ==
    /\ r \in 1..Len(mStarts)
    /\ mStarts' = RemoveAt(mStarts, r)
    /\ mError' = "start-error"
    /\ mStatus' = "error"
    /\ UNCHANGED <<mPlatform, mUrl, mProgress, mTaskId, mResult, mPreview,
                   mTimer, mPreviews, mPolls, odc, srvVars, histVars, batchVars>>

\* the poll effect is set up: taskId is set and status is polling
PollActive == mTaskId # Null /\ mStatus = "polling"

\* the 2 s interval fires: the callback asks for the status of the taskId
\* of its render and holds that render's onDownloadComplete.  The url
\* cannot change while loading or polling, so a debounce timer still armed
\* was armed before the interval was set and its 500 ms run out first.
PollTick ==
    /\ PollActive
    /\ ~mTimer
    /\ Len(mPolls) < MaxPolls
    /\ mPolls' = Append(mPolls, [taskId |-> mTaskId, base |-> downloads,
                                 answered |-> FALSE, resp |-> RequestError])
    /\ retried' = retried \cup ({mTaskId} \cap failed)
    /\ UNCHANGED <<mPlatform, mUrl, mStatus, mProgress, mError, mTaskId,
                   mResult, mPreview, mTimer, mPreviews, mStarts, odc,
                   srvVars, downloads, stored, ticks, failed, batchVars>>

\* the service answers a status request with the snapshot of that moment
PollAnswer(p) ==
    /\ p \in 1..Len(mPolls)
    /\ ~mPolls[p].answered
    /\ mPolls' = [mPolls EXCEPT ![p].answered = TRUE,
                                ![p].resp = GetStatus(mPolls[p].taskId)]
    /\ UNCHANGED <<mPlatform, mUrl, mStatus, mProgress, mError, mTaskId,
                   mResult, mPreview, mTimer, mPreviews, mStarts, odc,
                   srvVars, histVars, batchVars>>

\* the status request is answered with a completed status that carries no
\* file_id (result?.file_id and the !id branch of handleDownloadFile
\* provide for it)
PollAnswerNoFile(p) ==
    /\ p \in 1..Len(mPolls)
    /\ ~mPolls[p].answered
    /\ Known(mPolls[p].taskId)
    /\ jobs[mPolls[p].taskId].status = "completed"
    /\ mPolls' = [mPolls EXCEPT ![p].answered = TRUE,
                                ![p].resp = [GetStatus(mPolls[p].taskId) EXCEPT
                                                !.file_id = Undefined,
                                                !.filename = Undefined]]
    /\ UNCHANGED <<mPlatform, mUrl, mStatus, mProgress, mError, mTaskId,
                   mResult, mPreview, mTimer, mPreviews, mStarts, odc,
                   srvVars, histVars, batchVars>>

\* the status request is lost (network error, timeout): it will throw
PollLost(p) ==
    /\ p \in 1..Len(mPolls)
    /\ ~mPolls[p].answered
    /\ mPolls' = [mPolls EXCEPT ![p].answered = TRUE, ![p].resp = RequestError]
    /\ UNCHANGED <<mPlatform, mUrl, mStatus, mProgress, mError, mTaskId,
                   mResult, mPreview, mTimer, mPreviews, mStarts, odc,
                   srvVars, histVars, batchVars>>

\* taskStatus.progress || 0
ShownProgress(st) == IF st.progress # 0 THEN st.progress ELSE 0

\* a faulty callback that submits the download again when it sees the job
\* in error
PollDeliverResubmits(p) ==
    /\ p \in 1..Len(mPolls)
    /\ mPolls[p].answered
    /\ mPolls' = RemoveAt(mPolls, p)
    /\ LET st == mPolls[p].resp
           id == mPolls[p].taskId
       IN IF ~st.ok
          THEN /\ failed' = IF st.status = "NotFoundError"
                            THEN failed \cup {id} ELSE failed
               /\ UNCHANGED <<mProgress, mStatus, mResult, mError, odc,
                              downloads, stored, mStarts>>
          ELSE /\ mProgress' = ShownProgress(st)
               /\ UNCHANGED failed
               /\ IF st.status = "completed"
                  THEN /\ mStatus' = "completed"
                       /\ mResult' = [file_id |-> st.file_id, filename |-> st.filename]
                       /\ odc' = Append(odc, id)
                       /\ AddToHistory(Entry(id, mPlatform, st.filename, st.file_id),
                                       mPolls[p].base)
                       /\ UNCHANGED <<mError, mStarts>>
                  ELSE IF st.status = "error"
                  THEN /\ mError' = ""
                       /\ mStatus' = "loading"
                       /\ mStarts' = Append(mStarts, [endpoint |-> ModalEndpoint(mPlatform),
                                                      url |-> mUrl.text])
                       /\ UNCHANGED <<mResult, odc, downloads, stored>>
                  ELSE UNCHANGED <<mStatus, mResult, mError, odc, downloads,
                                   stored, mStarts>>
    /\ UNCHANGED <<mPlatform, mUrl, mTaskId, mPreview, mTimer, mPreviews,
                   srvVars, ticks, retried, batchVars>>

\* the callback resumes with the response (lines 376-401)
PollDeliver(p) ==
    /\ p \in 1..Len(mPolls)
    /\ mPolls[p].answered
    /\ mPolls' = RemoveAt(mPolls, p)
    /\ LET st == mPolls[p].resp
           id == mPolls[p].taskId
       IN IF ~st.ok
          THEN /\ failed' = IF st.status = "NotFoundError"
                            THEN failed \cup {id} ELSE failed
               /\ UNCHANGED <<mProgress, mStatus, mResult, mError, odc,
                              downloads, stored>>
          ELSE /\ mProgress' = ShownProgress(st)
               /\ UNCHANGED failed
               /\ IF st.status = "completed"
                  THEN /\ mStatus' = "completed"
                       /\ mResult' = [file_id |-> st.file_id, filename |-> st.filename]
                       /\ odc' = Append(odc, id)
                       /\ AddToHistory(Entry(id, mPlatform, st.filename, st.file_id),
                                       mPolls[p].base)
                       /\ UNCHANGED mError
                  ELSE IF st.status = "error"
                  THEN /\ mError' = "download-error"
                       /\ mStatus' = "error"
                       /\ UNCHANGED <<mResult, odc, downloads, stored>>
                  ELSE UNCHANGED <<mStatus, mResult, mError, odc, downloads, stored>>
    /\ UNCHANGED <<mPlatform, mUrl, mTaskId, mPreview, mTimer, mPreviews,
                   mStarts, srvVars, ticks, retried, batchVars>>

\* the auto-save effect (lines 460-465) calls handleDownloadFile, which
\* sets saving and fetches the file
SaveStart ==
    /\ mStatus = "completed"
    /\ Truthy(mResult.file_id)
    /\ mStatus' = "saving"
    /\ UNCHANGED <<mPlatform, mUrl, mProgress, mError, mTaskId, mResult,
                   mPreview, mTimer, mPreviews, mStarts, mPolls, odc,
                   srvVars, histVars, batchVars>>

\* handleDownloadFile ends: saved, whether or not the file was written
SaveEnd ==
    /\ mStatus = "saving"
    /\ mStatus' = "saved"
    /\ UNCHANGED <<mPlatform, mUrl, mProgress, mError, mTaskId, mResult,
                   mPreview, mTimer, mPreviews, mStarts, mPolls, odc,
                   srvVars, histVars, batchVars>>

\* ------------------------------------- chat (AIChatPanel.jsx:7-57, 184-207)
MaxSends == 2       \* messages the user sends to the assistant
MaxChatBatch == 1   \* intentions in one reply of the assistant

ChatTexts == {"", "   ", "descarga song b"}
ChatLists == UNION {[1..n -> Intentions] : n \in 1..MaxChatBatch}

\* the messages sent so far: each adds one user message (line 27)
Sends == Cardinality({m \in 1..Len(messages) : messages[m] = "user"})

\* the textarea's onChange (line 189): it is never disabled
SetInput(text) ==
    /\ input # text
    /\ input' = text
    /\ UNCHANGED <<isLoading, chats, autoTimers, bPc, bItems, bIdx, bBase, sent,
                   bLog, messages, srvVars, histVars, modalVars>>

\* a faulty handleSend that does not look at isLoading
HandleSendUnlocked ==
    /\ Trim(input) # ""
    /\ Sends < MaxSends
    /\ input' = ""
    /\ messages' = Append(messages, "user")
    /\ isLoading' = TRUE
    /\ chats' = Append(chats, Trim(input))
    /\ UNCHANGED <<autoTimers, bPc, bItems, bIdx, bBase, sent, bLog,
                   srvVars, histVars, modalVars>>

\* handleSend up to its await (lines 22-31), from Enter or the send button:
\* with a blank input or while isLoading it returns at once (line 23)
HandleSend ==
    /\ Trim(input) # ""
    /\ ~isLoading
    /\ Sends < MaxSends
    /\ input' = ""
    /\ messages' = Append(messages, "user")
    /\ isLoading' = TRUE
    /\ chats' = Append(chats, Trim(input))
    /\ UNCHANGED <<autoTimers, bPc, bItems, bIdx, bBase, sent, bLog,
                   srvVars, histVars, modalVars>>

\* agentChat answers with a non-empty list of intentions (lines 33-46):
\* with auto_download the timer of handleBatchDownload is set; finally
\* (lines 54-56) releases isLoading
ChatReplyIntentions(r, items, auto) ==
    /\ r \in 1..Len(chats)
    /\ chats' = RemoveAt(chats, r)
    /\ messages' = Append(messages, "intentions")
    /\ autoTimers' = IF auto THEN Append(autoTimers, items) ELSE autoTimers
    /\ isLoading' = FALSE
    /\ UNCHANGED <<input, bPc, bItems, bIdx, bBase, sent, bLog,
                   srvVars, histVars, modalVars>>

\* agentChat answers without intentions (lines 47-49)
ChatReplyText(r) ==
    /\ r \in 1..Len(chats)
    /\ chats' = RemoveAt(chats, r)
    /\ messages' = Append(messages, "assistant")
    /\ isLoading' = FALSE
    /\ UNCHANGED <<input, autoTimers, bPc, bItems, bIdx, bBase, sent, bLog,
                   srvVars, histVars, modalVars>>

\* agentChat throws (lines 50-53): the error message of the assistant
ChatReplyThrows(r) ==
    /\ r \in 1..Len(chats)
    /\ chats' = RemoveAt(chats, r)
    /\ messages' = Append(messages, "chat-error")
    /\ isLoading' = FALSE
    /\ UNCHANGED <<input, autoTimers, bPc, bItems, bIdx, bBase, sent, bLog,
                   srvVars, histVars, modalVars>>

\* a timer of handleSend fires (line 44): handleBatchDownload is called with
\* the intentions of the reply.  The model follows one run at a time, so a
\* timer is taken up when no run is under way.
AutoDownload ==
    /\ autoTimers # <<>>
    /\ bPc \in {"idle", "done", "failed"}
    /\ autoTimers' = Tail(autoTimers)
    /\ bItems' = Head(autoTimers)
    /\ bIdx' = 1
    /\ bBase' = downloads
    /\ bPc' = "picker"
    /\ UNCHANGED <<input, isLoading, chats, sent, bLog, messages,
                   srvVars, histVars, modalVars>>

\* one run of the batch executor, from a page with an empty history or
\* with one finished download in it
InitBatch ==
    /\ BatchIdle
    /\ jobs = [id \in TaskIds |-> NoJob]
    /\ nextJob = 0
    /\ slots = 0
    /\ \E old \in {<<>>, <<Entry(StaleId, "youtube", "old song", "file-old")>>} :
          /\ downloads = old
          /\ stored = IF old = <<>> THEN <<>> ELSE <<old>>
    /\ ticks = <<>>
    /\ failed = {}
    /\ retried = {}
    /\ ModalClosed

NextBatch ==
    \/ BatchStart
    \/ BatchPicked
    \/ BatchSubmit
    \/ BatchSubmitOk
    \/ BatchSubmitNoTask
    \/ BatchSubmitThrows
    \/ BatchFinish


\* ------------------------------------------------ modal: specification
\* A modal has just been opened from one of the three platform cards; the
\* history is empty; the service has run jobs for other clients before
\* (all finished) and has one job left to create within the bound.
InitModal ==
    /\ mPlatform \in Supported
    /\ mUrl = BlankUrl
    /\ mStatus = "idle"
    /\ mProgress = 0
    /\ mError = ""
    /\ mTaskId = Null
    /\ mResult = NoResult
    /\ mPreview = Null
    /\ mTimer = FALSE
    /\ mPreviews = <<>>
    /\ mStarts = <<>>
    /\ mPolls = <<>>
    /\ odc = <<>>
    /\ jobs = [id \in TaskIds |->
                 IF id = TaskId(MaxJobs) THEN NoJob
                 ELSE DoneJob]
    /\ nextJob = MaxJobs - 1
    /\ slots = 0
    /\ downloads = <<>>
    /\ stored = <<>>
    /\ ticks = <<>>
    /\ failed = {}
    /\ retried = {}
    /\ BatchIdle

\* the DownloadModal as a component: its platform prop may be any object
\* with an id, not only one of the three cards of App
InitModalAny ==
    /\ mPlatform \in Supported \cup {"vimeo"}
    /\ mUrl = BlankUrl
    /\ mStatus = "idle"
    /\ mProgress = 0
    /\ mError = ""
    /\ mTaskId = Null
    /\ mResult = NoResult
    /\ mPreview = Null
    /\ mTimer = FALSE
    /\ mPreviews = <<>>
    /\ mStarts = <<>>
    /\ mPolls = <<>>
    /\ odc = <<>>
    /\ jobs = [id \in TaskIds |->
                 IF id = TaskId(MaxJobs) THEN NoJob
                 ELSE DoneJob]
    /\ nextJob = MaxJobs - 1
    /\ slots = 0
    /\ downloads = <<>>
    /\ stored = <<>>
    /\ ticks = <<>>
    /\ failed = {}
    /\ retried = {}
    /\ BatchIdle

NextModal ==
    \/ \E id \in TaskIds : JobStart(id)
    \/ \E id \in TaskIds : JobProgress(id)
    \/ \E id \in TaskIds : JobComplete(id)
    \/ \E id \in TaskIds : JobFail(id)
    \/ \E u \in Urls : SetUrl(u)
    \/ TimerFires
    \/ \E p \in 1..MaxPreviews, o \in PreviewOutcomes : PreviewResponse(p, o)
    \/ StartDownload
    \/ \E r \in 1..MaxStarts : StartOk(r)
    \/ \E r \in 1..MaxStarts : StartNoTask(r)
    \/ \E r \in 1..MaxStarts : StartThrows(r)
    \/ PollTick
    \/ \E p \in 1..MaxPolls : PollAnswer(p)
    \/ \E p \in 1..MaxPolls : PollAnswerNoFile(p)
    \/ \E p \in 1..MaxPolls : PollLost(p)
    \/ \E p \in 1..MaxPolls : PollDeliver(p)
    \/ SaveStart
    \/ SaveEnd

\* ---------------------------------------------- history: specification
\* The page is loaded with a history saved by an earlier session
\* (App.jsx:16-19): pending entries of jobs the service still runs, and
\* possibly one whose job the service no longer knows.
\* newest first: the jobs task-m .. task-1, then possibly the stale entry
RestoredLists ==
    LET Tasks(m) == [k \in 1..m |-> TaskId(m + 1 - k)]
    IN {Tasks(m) : m \in 0..Min(MaxHist, MaxJobs)}
       \cup {Append(Tasks(m), StaleId) : m \in 0..Min(MaxHist - 1, MaxJobs)}
RestoredEntry(id) == Entry(id, "youtube", "song", Null)

InitHistory ==
    \E l \in RestoredLists :
       /\ downloads = [k \in 1..Len(l) |-> RestoredEntry(l[k])]
       /\ stored = IF Len(l) = 0 THEN <<>> ELSE <<[k \in 1..Len(l) |-> RestoredEntry(l[k])]>>
       /\ jobs = [id \in TaskIds |->
                    IF \E k \in 1..Len(l) : l[k] = id
                    THEN NewJob ELSE NoJob]
       /\ nextJob = MaxJobs
       /\ slots = 0
       /\ ticks = <<>>
       /\ failed = {}
       /\ retried = {}
       /\ BatchIdle
       /\ ModalClosed

NextHistory ==
    \/ \E id \in TaskIds : JobStart(id)
    \/ \E id \in TaskIds : JobComplete(id)
    \/ \E id \in TaskIds : JobFail(id)
    \/ TickStart
    \/ \E t \in 1..MaxTicks, k \in 1..MaxHist : TickResponse(t, k)
    \/ \E t \in 1..MaxTicks : TickFinish(t)
    \/ ClearHistory

vars == <<jobs, nextJob, slots, downloads, stored, ticks, failed, retried,
          bPc, bItems, bIdx, bBase, sent, bLog, messages,
          input, isLoading, chats, autoTimers,
          mPlatform, mUrl, mStatus, mProgress, mError, mTaskId, mResult,
          mPreview, mTimer, mPreviews, mStarts, mPolls, odc>>

SpecHistory == InitHistory /\ [][NextHistory]_vars

SpecBatch == InitBatch /\ [][NextBatch]_vars

SpecModal == InitModal /\ [][NextModal]_vars

SpecModalAny == InitModalAny /\ [][NextModal]_vars

\* The modal with a reliable network: no status request is lost.  Timers
\* fire, requests are answered, responses are handled and jobs run to
\* their end; what the user does (typing, clicking) is under no obligation.
NextModalFair ==
    \/ \E id \in TaskIds : JobStart(id)
    \/ \E id \in TaskIds : JobProgress(id)
    \/ \E id \in TaskIds : JobComplete(id)
    \/ \E id \in TaskIds : JobFail(id)
    \/ \E u \in Urls : SetUrl(u)
    \/ TimerFires
    \/ \E p \in 1..MaxPreviews, o \in PreviewOutcomes : PreviewResponse(p, o)
    \/ StartDownload
    \/ \E r \in 1..MaxStarts : StartOk(r)
    \/ \E r \in 1..MaxStarts : StartNoTask(r)
    \/ \E r \in 1..MaxStarts : StartThrows(r)
    \/ PollTick
    \/ \E p \in 1..MaxPolls : PollAnswer(p)
    \/ \E p \in 1..MaxPolls : PollDeliver(p)
    \/ SaveStart
    \/ SaveEnd

ModalFairness ==
    /\ WF_vars(\E id \in TaskIds : JobStart(id))
    /\ WF_vars(\E id \in TaskIds : JobComplete(id) \/ JobFail(id))
    /\ WF_vars(TimerFires)
    /\ WF_vars(\E p \in 1..MaxPreviews, o \in PreviewOutcomes : PreviewResponse(p, o))
    /\ WF_vars(\E r \in 1..MaxStarts : StartOk(r) \/ StartNoTask(r) \/ StartThrows(r))
    /\ WF_vars(PollTick)
    /\ WF_vars(\E p \in 1..MaxPolls : PollAnswer(p))
    /\ WF_vars(\E p \in 1..MaxPolls : PollDeliver(p))
    /\ WF_vars(SaveStart)
    /\ WF_vars(SaveEnd)

FairSpecModal == InitModal /\ [][NextModalFair]_vars /\ ModalFairness

\* --------------------------------------------- service: specification
\* The job service on its own: clients submit, workers run the jobs.
InitService ==
    /\ jobs = [id \in TaskIds |-> NoJob]
    /\ nextJob = 0
    /\ slots = 0
    /\ downloads = <<>>
    /\ stored = <<>>
    /\ ticks = <<>>
    /\ failed = {}
    /\ retried = {}
    /\ BatchIdle
    /\ ModalClosed

NextService ==
    \/ ClientSubmit
    \/ \E id \in TaskIds : JobStart(id)
    \/ \E id \in TaskIds : JobProgress(id)
    \/ \E id \in TaskIds : JobComplete(id)
    \/ \E id \in TaskIds : JobFail(id)
    \/ \E id \in TaskIds : JobTimeout(id)
    \/ \E id \in TaskIds : JobFault(id)
    \/ \E id \in TaskIds : JobHang(id)

SpecService == InitService /\ [][NextService]_vars

\* Workers are scheduled: a pending job is started when a slot is free, an
\* adapter call that answers comes to an end, and the timer of a call that
\* does not answer fires.  Clients are under no obligation to submit.
ServiceFairness ==
    /\ WF_vars(\E id \in TaskIds : JobStart(id))
    /\ \A id \in TaskIds : WF_vars(JobTimeout(id))
    /\ \A id \in TaskIds : WF_vars(JobComplete(id) \/ JobFail(id) \/ JobHang(id))

FairSpecService == InitService /\ [][NextService]_vars /\ ServiceFairness

\* --------------------------------------------- re-run: specification
MaxRuns == 2        \* runs of handleBatchDownload over one message's list

\* the runs started so far: each announces itself once (lines 70-73)
Runs == Cardinality({m \in 1..Len(messages) : messages[m] = "starting"})

\* the button of the message (AIChatPanel.jsx:161-167) is rendered for every
\* message with intentions and is never disabled: it is clicked again,
\* after the run started by the timer of handleSend or by an earlier click,
\* and calls handleBatchDownload with the same msg.intentions
BatchAgain ==
    /\ bPc \in {"done", "failed"}
    /\ Runs < MaxRuns
    /\ bPc' = "picker"
    /\ bIdx' = 1
    /\ bBase' = downloads
    /\ UNCHANGED <<bItems, sent, bLog, messages, srvVars, histVars, modalVars, chatVars>>

NextRebatch ==
    \/ BatchStart
    \/ BatchPicked
    \/ BatchSubmit
    \/ BatchSubmitOk
    \/ BatchSubmitNoTask
    \/ BatchSubmitThrows
    \/ BatchFinish
    \/ BatchAgain

SpecRebatch == InitBatch /\ [][NextRebatch]_vars

\* ------------------------------------------------ chat: specification
\* The chat panel on a page with an empty history: the user types and
\* sends, the assistant answers, and the batches it starts run.
NextChat ==
    \/ \E text \in ChatTexts : SetInput(text)
    \/ HandleSend
    \/ \E r \in 1..MaxSends, items \in ChatLists, auto \in BOOLEAN :
          ChatReplyIntentions(r, items, auto)
    \/ \E r \in 1..MaxSends : ChatReplyText(r)
    \/ \E r \in 1..MaxSends : ChatReplyThrows(r)
    \/ AutoDownload
    \/ BatchPicked
    \/ BatchSubmit
    \/ BatchSubmitOk
    \/ BatchSubmitNoTask
    \/ BatchSubmitThrows
    \/ BatchFinish

SpecChat == InitBatch /\ [][NextChat]_vars

\* ----------------------------------------------- retry: specification
\* The modal of the YouTube card with a URL typed and its preview shown;
\* from here the user only clicks.  The service has two jobs left to create
\* within the bound, so a download that failed can be started again.
TypedUrl == Url("https://youtu.be/abcdefg", 24, "youtube")
InitRetry ==
    /\ mPlatform = "youtube"
    /\ mUrl = TypedUrl
    /\ mStatus = "idle"
    /\ mProgress = 0
    /\ mError = ""
    /\ mTaskId = Null
    /\ mResult = NoResult
    /\ mPreview = TypedUrl.text
    /\ mTimer = FALSE
    /\ mPreviews = <<>>
    /\ mStarts = <<>>
    /\ mPolls = <<>>
    /\ odc = <<>>
    /\ jobs = [id \in TaskIds |->
                 IF id \in {TaskId(MaxJobs - 1), TaskId(MaxJobs)} THEN NoJob
                 ELSE DoneJob]
    /\ nextJob = MaxJobs - 2
    /\ slots = 0
    /\ downloads = <<>>
    /\ stored = <<>>
    /\ ticks = <<>>
    /\ failed = {}
    /\ retried = {}
    /\ BatchIdle

NextRetry ==
    \/ \E id \in TaskIds : JobStart(id)
    \/ \E id \in TaskIds : JobProgress(id)
    \/ \E id \in TaskIds : JobComplete(id)
    \/ \E id \in TaskIds : JobFail(id)
    \/ StartDownload
    \/ \E r \in 1..MaxStarts : StartOk(r)
    \/ \E r \in 1..MaxStarts : StartNoTask(r)
    \/ \E r \in 1..MaxStarts : StartThrows(r)
    \/ PollTick
    \/ \E p \in 1..MaxPolls : PollAnswer(p)
    \/ \E p \in 1..MaxPolls : PollLost(p)
    \/ \E p \in 1..MaxPolls : PollDeliver(p)
    \/ SaveStart
    \/ SaveEnd

SpecRetry == InitRetry /\ [][NextRetry]_vars

\* ------------------------------------------- retention: specification
\* A batch run on a page whose history is full (App.jsx:71 keeps 20): the
\* 19 newer downloads have finished, the oldest is still pending.
OldId(k) == "old-" \o ToString(k)
FullHistory ==
    [k \in 1..HistoryLimit |->
        Entry(OldId(k), "youtube", "old song",
              IF k = HistoryLimit THEN Null ELSE "file-old")]

InitRetention ==
    /\ BatchIdle
    /\ jobs = [id \in TaskIds |-> NoJob]
    /\ nextJob = 0
    /\ slots = 0
    /\ downloads = FullHistory
    /\ stored = <<FullHistory>>
    /\ ticks = <<>>
    /\ failed = {}
    /\ retried = {}
    /\ ModalClosed

SpecRetention == InitRetention /\ [][NextBatch]_vars

\* ------------------------------------------------------------ properties
BatchOver == bPc \in {"done", "failed"}
Submitted(i) == \E r \in 1..Len(sent) : sent[r].item = i
\* the task id the submit of item i returned, if it returned one
Started(i) == \E r \in 1..Len(sent) :
                 sent[r].item = i /\ sent[r].resp \in TaskIds
InHistory(id) == \E k \in 1..Len(downloads) : downloads[k].id = id
HasEntry(i) == \E r \in 1..Len(sent) :
                  sent[r].item = i /\ sent[r].resp \in TaskIds /\ InHistory(sent[r].resp)
WellFormed(item) ==
    /\ ~item.isNull
    /\ item.platform \in Supported
    /\ Truthy(item.url) \/ Truthy(item.query)

\* C1: when the submit of item i throws, the failure is logged for item i
\* and for no other item, and, once the run is over, a submit has been
\* issued for every later intention of the list (every later entry that is
\* an object).
Threw(i) == \E r \in 1..Len(sent) : sent[r].item = i /\ sent[r].resp = "throw"
C1_FailureIsolated ==
    /\ \A i \in bLog : Threw(i)
    /\ \A i \in 1..Len(bItems) :
          Threw(i)
          => /\ i \in bLog
             /\ BatchOver =>
                   \A j \in (i + 1)..Len(bItems) : ~bItems[j].isNull => Submitted(j)

\* C2: once the run is over every item has exactly one outcome, a history
\* entry with its task id or a logged failure, and no aggregate error
\* message has replaced them.
C2_OneOutcomePerItem ==
    BatchOver =>
       /\ \A i \in 1..Len(bItems) : HasEntry(i) # (i \in bLog)
       /\ \A m \in 1..Len(messages) : messages[m] # "batch-error"

\* C3: no request is sent for a malformed intention (unsupported or missing
\* platform, or neither url nor query); once the run is over such an item
\* has a logged failure and every well-formed item whose submit returned a
\* task id has its history entry.
C3_MalformedRejected ==
    /\ \A r \in 1..Len(sent) : WellFormed(bItems[sent[r].item])
    /\ BatchOver =>
          \A i \in 1..Len(bItems) :
             IF ~bItems[i].isNull /\ ~WellFormed(bItems[i])
             THEN i \in bLog
             ELSE Started(i) => HasEntry(i)

\* C4: after a run over at least two intentions whose submits all returned
\* a task id, the history holds an entry for each of those task ids.
C4_EveryJobInHistory ==
    (bPc = "done" /\ Len(bItems) >= 2 /\ \A i \in 1..Len(bItems) : Started(i))
    => \A i \in 1..Len(bItems) : HasEntry(i)
\* C5: once a history entry has left pending (fileId no longer null), no
\* later write of the history returns it to pending or changes its fileId.
C5_NeverBackToPending ==
    [][\A k \in 1..Len(downloads) : \A n \in 1..Len(downloads') :
          (downloads[k].fileId # Null /\ downloads'[n].id = downloads[k].id)
          => downloads'[n].fileId = downloads[k].fileId]_vars

\* C6: a history entry carries a file identifier (and so offers the link
\* to /api/files/<fileId>) only when its job was observed completed: the
\* identifier is then the file id of that job's result.
C6_FileOnlyWhenCompleted ==
    \A k \in 1..Len(downloads) :
       OffersLink(downloads[k])
       => /\ Known(downloads[k].id)
          /\ jobs[downloads[k].id].status = "completed"
          /\ downloads[k].fileId = FileIdOf(downloads[k].id)

\* C7: a modal that is polling eventually shows completed or error, and a
\* history entry that is pending eventually is pending no more.
PendingInHistory(id) ==
    \E k \in 1..Len(downloads) : downloads[k].id = id /\ downloads[k].fileId = Null
C7_NoSilentHang ==
    /\ (mStatus = "polling") ~> (mStatus \in {"completed", "error"})
    /\ \A id \in TaskIds \cup {StaleId} :
          PendingInHistory(id) ~> ~PendingInHistory(id)

\* C8: no status query is issued for a task id after a status query for
\* that id has failed with NotFoundError.
C8_NotFoundNotRetried == retried = {}
\* C9: the modal passes each job to onDownloadComplete at most once, and
\* the history never holds two entries for one task id.
Count(seq, x) == Cardinality({n \in 1..Len(seq) : seq[n] = x})
C9_CompletedOnce ==
    \A id \in TaskIds :
       /\ Count(odc, id) <= 1
       /\ Cardinality({k \in 1..Len(downloads) : downloads[k].id = id}) <= 1

\* C10: the progress the modal shows is in 0..100 and never decreases
\* while the modal is polling.
C10_ProgressMonotone ==
    [][/\ mProgress' \in 0..100
       /\ (mStatus = "polling" /\ mStatus' = "polling") => mProgress' >= mProgress]_vars

\* C11: no write of the history by addToHistory removes an entry that is
\* still pending (fileId null): every entry pending before the write is in
\* the history after it.
C11_RetentionKeepsPending ==
    [][\A k \in 1..Len(downloads) :
          downloads[k].fileId = Null
          => \E n \in 1..Len(downloads') : downloads'[n].id = downloads[k].id]_vars

\* C12: a step of the preview (its request is sent, or its response is
\* handled) sends no request to a download endpoint, creates no job, writes
\* no history entry and leaves the modal's taskId as it was.
C12_PreviewSideEffectFree ==
    [][mPreviews' # mPreviews
       => UNCHANGED <<jobs, nextJob, mStarts, sent, downloads, stored, mTaskId>>]_vars
\* a preview has been fetched and shown, and no job was created
C12_Witness == mPreview # Null /\ mPreviews = <<>> /\ nextJob = MaxJobs - 1

\* C13: when the response of a preview that failed (success=false, a throw,
\* a timeout) is handled, the preview is omitted, the modal is idle and the
\* download button is enabled.
C13_PreviewFailureSoft ==
    [][(Len(mPreviews') < Len(mPreviews) /\ mPreview' = Null)
       => (mStatus' = "idle" /\ StartEnabled')]_vars
\* a preview has failed with an error text and the modal is idle again
C13_Witness ==
    mPreview = Null /\ mError = "preview-error" /\ mStatus = "idle" /\ mPreviews = <<>>

\* C14: a download request is sent, and a taskId set, only for a URL that
\* is not blank and a platform among youtube, spotify and tiktok; the click
\* with a blank URL sets the error message and leaves the status, and the
\* click for another platform puts the modal in error, both without a
\* request, a job or a taskId.
C14_MalformedStartsNothing ==
    [][/\ Len(mStarts') > Len(mStarts)
          => (Trim(mUrl.text) # "" /\ mPlatform \in Supported)
       /\ \A r \in 1..Len(mStarts') : Trim(mStarts'[r].url) # ""
       /\ (mError' = "enter-url" /\ mError # "enter-url")
          => (Trim(mUrl.text) = "" /\ UNCHANGED <<mStatus, mStarts, mTaskId, jobs, nextJob>>)
       /\ (mError' = "unsupported-platform" /\ mError # "unsupported-platform")
          => (mStatus' = "error" /\ UNCHANGED <<mStarts, mTaskId, jobs, nextJob>>)
       /\ mPlatform \notin Supported
          => (mStarts' = <<>> /\ mTaskId' = Null /\ nextJob' = nextJob)]_vars
\* for a platform without an endpoint the click has put the modal in
\* error, and a later click with a blank URL has only set its message
C14_Witness ==
    /\ mPlatform \notin Supported
    /\ mStatus = "error"
    /\ mError = "enter-url"
    /\ Trim(mUrl.text) = ""
    /\ mTaskId = Null

C16_ConsumedOnce ==
    \A i \in 1..Len(bItems) :
       Cardinality({r \in 1..Len(sent) :
                       sent[r].item = i /\ sent[r].resp \in TaskIds}) <= 1

\* within one run the requests go out in the order of the list, at most
\* one per element, and each only after the one before it has returned or
\* failed
InOrderOneAtATime ==
    /\ \A r \in 1..(Len(sent) - 1) : sent[r].item < sent[r + 1].item
    /\ \A r \in 1..Len(sent) : sent[r].resp = "inflight" => r = Len(sent)

\* C17: within one run the requests are issued in the order of the list,
\* one at a time, and once the run is over exactly one request has been
\* issued for every element of the list.
C17_InOrderOnePerItem ==
    /\ InOrderOneAtATime
    /\ BatchOver => \A i \in 1..Len(bItems) : Submitted(i)

\* a step in which an intention fails to start: its submit throws or
\* returns no task id, or the run is aborted
FailsToStart ==
    \/ bLog' # bLog
    \/ bPc # "failed" /\ bPc' = "failed"
    \/ /\ bPc = "await"
       /\ sent'[Len(sent)].resp \in {"throw", "no-task"}

\* C18: a step in which an intention of the batch fails to start cancels
\* no job and leaves the history, with the entries of the items started
\* before it, as it was.
C18_NoRollback ==
    [][FailsToStart => UNCHANGED <<jobs, nextJob, downloads, stored>>]_vars
\* an item has failed to start after an earlier item of the run was
\* started, and the earlier item's entry is in the history
C18_Witness ==
    \E i \in bLog : \E j \in 1..(i - 1) : HasEntry(j) /\ jobs[TaskId(1)].status = "pending"

\* C19: at most Cap jobs are processing in any state, and while Cap jobs
\* are processing every pending job stays pending: a job leaves pending
\* only in a step that starts with fewer than Cap jobs processing.
C19_ConcurrencyCap ==
    [][/\ ProcessingCount' <= Cap
       /\ ProcessingCount = Cap
          => \A id \in TaskIds :
                jobs[id].status = "pending" => jobs'[id].status = "pending"]_vars
\* Cap jobs are processing and a further job, submitted after them, waits
C19_Witness ==
    /\ ProcessingCount = Cap
    /\ \E id \in TaskIds : jobs[id].status = "pending"

\* C20: the slots held are as many as the jobs processing, in every state,
\* and a job that carries an error detail (adapter failure, timeout,
\* internal fault) is in error: every exit of an execution has released its
\* slot and left the job in a terminal state.
C20_SlotReleasedOnEveryExit ==
    /\ slots = ProcessingCount
    /\ \A id \in TaskIds :
          jobs[id].errorDetail # "none" => jobs[id].status = "error"
\* a job has ended with an internal fault while another was processing,
\* and a third job has since taken the freed slot
C20_Witness ==
    /\ \E id \in TaskIds : jobs[id].errorDetail = "internal-fault"
    /\ \E id \in TaskIds : jobs[id].errorDetail = "timeout"
    /\ ProcessingCount = 1
    /\ slots = 1

\* C21: a job whose adapter call does not return eventually is in error
\* with the timeout detail; and a job that is pending while every slot is
\* held by such a job eventually leaves pending, on a slot a timeout freed.
AllSlotsHung ==
    /\ slots = Cap
    /\ \A id \in TaskIds : jobs[id].status = "processing" => jobs[id].hung
C21_TimeoutFreesSlot ==
    /\ \A id \in TaskIds :
          (jobs[id].status = "processing" /\ jobs[id].hung)
          ~> (jobs[id].status = "error" /\ jobs[id].errorDetail = "timeout")
    /\ \A j \in TaskIds :
          (jobs[j].status = "pending" /\ AllSlotsHung) ~> (jobs[j].status # "pending")
\* both slots were held by calls that did not return; one has timed out and
\* the job that waited has taken its slot
C21_Witness ==
    /\ \E id \in TaskIds : jobs[id].errorDetail = "timeout"
    /\ \E id \in TaskIds : jobs[id].status = "processing" /\ jobs[id].hung
    /\ \E j \in TaskIds : jobs[j].status = "processing" /\ ~jobs[j].hung
    /\ slots = Cap

\* C22: the reference of every request is the url of its intention when
\* the intention has one, and its query when the url is absent or empty.
C22_UrlBeforeQuery ==
    \A r \in 1..Len(sent) :
       LET item == bItems[sent[r].item]
       IN sent[r].url = IF item.url \in {Undefined, Null, ""}
                        THEN item.query ELSE item.url
\* requests have gone out for an intention with both a url and a query and
\* for one whose url is empty
C22_Witness ==
    /\ \E r \in 1..Len(sent) :
          /\ Truthy(bItems[sent[r].item].url)
          /\ Truthy(bItems[sent[r].item].query)
    /\ \E r \in 1..Len(sent) :
          /\ bItems[sent[r].item].url = ""
          /\ sent[r].url = bItems[sent[r].item].query

\* C23: while the modal is loading or polling, no step of the preview (its
\* request going out when the debounce timer fires, or its response being
\* handled) changes the modal status.
C23_PreviewKeepsStatus ==
    [][(mStatus \in {"loading", "polling"} /\ mPreviews' # mPreviews)
       => mStatus' = mStatus]_vars

\* C24: the write of a polling tick keeps every entry the history held
\* just before it, and a history that is empty stays empty as long as
\* nothing is added to it (no step of the history poll adds an entry).
C24_TickUndoesNothing ==
    [][/\ Len(ticks') < Len(ticks)
          => \A k \in 1..Len(downloads) :
                \E n \in 1..Len(downloads') : downloads'[n].id = downloads[k].id
       /\ downloads = <<>> => downloads' = <<>>]_vars

\* C25: when the response of the submit is handled, whatever it is, the
\* modal leaves loading: its status is polling, with the taskId set, or
\* error.
C25_LeavesLoading ==
    [][Len(mStarts') < Len(mStarts)
       => \/ mStatus' = "polling" /\ mTaskId' # Null
          \/ mStatus' = "error"]_vars

\* C26: the modal never rests in completed: whenever it shows completed
\* the auto-save is due (the result carries a file id), so that saving and
\* then saved follow.
C26_CompletedGetsSaved == mStatus = "completed" => Truthy(mResult.file_id)

\* C27: a tick of the history poll starts only while some entry of the
\* history is pending, and it issues a status query for every entry whose
\* fileId is null and for no other entry; while an entry is pending (and
\* the bound on ticks in flight allows) a tick can start.
C27_PollExactlyPending ==
    [][/\ Len(ticks') > Len(ticks)
          => LET t == ticks'[Len(ticks')]
             IN /\ HasPending(downloads)
                /\ t.snap = downloads
                /\ \A k \in 1..Len(downloads) :
                      t.wait[k] = (downloads[k].fileId = Null)
       /\ (HasPending(downloads) /\ Len(ticks) < MaxTicks) => ENABLED TickStart]_vars
\* a tick is in flight whose history held a finished entry, which it does
\* not ask about, and a pending one, which it does
C27_Witness ==
    \E t \in 1..Len(ticks) :
       /\ \E k \in 1..Len(ticks[t].snap) :
             ticks[t].snap[k].fileId # Null /\ ~ticks[t].wait[k]
       /\ \E k \in 1..Len(ticks[t].snap) :
             ticks[t].snap[k].fileId = Null /\ ticks[t].wait[k]

\* C28: isLoading is a lock that is always released.  At most one agentChat
\* request is in flight and isLoading is true exactly while it is; a request
\* is only sent with a non-blank input and isLoading false; and the step that
\* handles a failed request appends the assistant's error message, releases
\* isLoading and starts no batch (no timer is set, no run begins).
C28_LoadingIsLock ==
    [][/\ Len(chats) <= 1 /\ Len(chats') <= 1
       /\ isLoading' = (Len(chats') = 1)
       /\ Len(chats') > Len(chats) => (~isLoading /\ Trim(input) # "")
       /\ Len(chats') < Len(chats)
          => \E kind \in {"intentions", "assistant", "chat-error"} :
                messages' = Append(messages, kind)
       /\ messages' = Append(messages, "chat-error")
          => /\ Len(chats') < Len(chats)
             /\ ~isLoading'
             /\ UNCHANGED <<autoTimers, bPc, bItems, bIdx, sent>>]_vars
C28_Witness ==
    /\ Sends = MaxSends
    /\ ~isLoading /\ chats = <<>>
    /\ messages[Len(messages)] = "chat-error"
    /\ \E m \in 1..Len(messages) : messages[m] = "intentions"
    /\ bPc = "done"

\* C29: once the debounce timer has fired and no preview request is in
\* flight, the preview the modal shows (preview set and status other than
\* previewing, line 524) is the one looked up for the url now in the input.
C29_PreviewOfCurrentUrl ==
    (~mTimer /\ mPreviews = <<>> /\ mStatus # "previewing" /\ mPreview # Null)
    => mPreview = mUrl.text

\* C30: the history never holds more than 20 entries and is kept newest
\* first: an entry that a step adds to the history stands at index 0, and
\* the write of a polling tick leaves the history with the length it had and
\* with the same downloads in the same order.
C30_BoundedNewestFirst ==
    [][/\ Len(downloads') <= HistoryLimit
       /\ \A k \in 1..Len(downloads') :
             ~InHistory(downloads'[k].id) /\ Len(ticks') >= Len(ticks) => k = 1
       /\ Len(ticks') < Len(ticks)
          => /\ Len(downloads') = Len(downloads)
             /\ \A k \in 1..Len(downloads) : downloads'[k].id = downloads[k].id]_vars

====
